---- MODULE Spec2Model ----
(***************************************************************************)
(* Model of xmind_to_docx.py: an XMind archive is parsed into a topic tree *)
(* and a resource mapping, and the tree is projected into a DOCX document  *)
(* (headings, bulleted paragraphs, pictures, one TOC field).               *)
(*                                                                         *)
(* Strings are sequences: titles are sequences of code points, archive     *)
(* member names are sequences of path tokens, binary contents are          *)
(* sequences of abstract byte groups (a signature followed by a body).     *)
(* A Python dict with optional keys is a function whose DOMAIN holds the   *)
(* keys that are present.  An Optional value is a sequence of length <= 1. *)
(***************************************************************************)
EXTENDS Integers, Sequences, FiniteSets, TLC

VARIABLES
    \* ---- main() ----
    pc,            \* position of main()
    srcExists,     \* source_path.exists()
    noToc,         \* args.no_toc
    imgWidth,      \* args.img_width, in tenths of an inch
    outputArg,     \* args.output (Optional)
    output_path,   \* main()'s output_path
    file,          \* the source file on disk
    xmindLib,      \* what the optional legacy library does with the file
    jsonResult,    \* what load_from_content_json did: [raised, root, assets]
    legacyCalled,  \* TRUE iff load_from_xmind_lib was invoked
    root_topic,    \* main()'s root_topic (Optional)
    assets,        \* main()'s assets
    docTitle,      \* document.core_properties.title
    indentOk,      \* TRUE iff the document's List Bullet style takes an indent
    doc,           \* the document body: the blocks appended so far
    stack,         \* pending add_topic calls, next one first
    exitCode,      \* process exit status (-1 while running)
    message,       \* what the run printed
    saved,         \* the path document.save wrote to (Optional)
    \* ---- title sanitization, on its own ----
    sanPc, sanRaw, sanOut, sanTwice,
    \* ---- extract_resources, on its own ----
    resPc, zf, resIdx, mapping,
    \* ---- iter_children, on its own ----
    itPc, itTopic, itOut

mainVars == <<pc, srcExists, noToc, imgWidth, outputArg, output_path, file, xmindLib,
              jsonResult, legacyCalled, root_topic, assets, docTitle, indentOk, doc,
              stack, exitCode, message, saved>>
sanVars == <<sanPc, sanRaw, sanOut, sanTwice>>
resVars == <<resPc, zf, resIdx, mapping>>
itVars == <<itPc, itTopic, itOut>>
vars == <<mainVars, sanVars, resVars, itVars>>

----------------------------------------------------------------------------
(* Bounds *)

\* longest raw title drawn for the title sanitization
MaxLen == 3
\* number of single-child ancestors put above a base tree (depth = chain + base depth)
MaxChain == 10
\* longest archive member name, in path tokens
MaxNameLen == 3
\* most members in an archive given to extract_resources
MaxEntries == 2
\* longest child list in any one place of a topic given to iter_children
MaxKids == 1
\* most groups under "topics" of a topic given to iter_children
MaxGroups == 2

----------------------------------------------------------------------------
(* Generic sequence helpers *)

Range(s) == {s[i] : i \in 1..Len(s)}

SeqsUpTo(S, n) == UNION {[1..k -> S] : k \in 0..n}

StartsWith(s, p) == Len(s) >= Len(p) /\ SubSeq(s, 1, Len(p)) = p

EndsWith(s, p) == Len(s) >= Len(p) /\ SubSeq(s, Len(s) - Len(p) + 1, Len(s)) = p

Min(a, b) == IF a <= b THEN a ELSE b

Max(a, b) == IF a >= b THEN a ELSE b

----------------------------------------------------------------------------
(* Title sanitization: add_topic, lines 99-100 *)

\* code points
TAB == 9
LF == 10
CR == 13
SPACE == 32
DOT == 46

\* str.isspace() for the code points below 256
IsSpace(ch) == ch \in {9, 10, 11, 12, 13, 28, 29, 30, 31, 32, 133, 160}

\* the generator's condition: ch >= " " or ch in "\t\n\r"
KeepChar(ch) == ch >= SPACE \/ ch \in {TAB, LF, CR}

DropControl(s) == SelectSeq(s, KeepChar)

RECURSIVE LStrip(_)
LStrip(s) == IF s # <<>> /\ IsSpace(Head(s)) THEN LStrip(Tail(s)) ELSE s

RECURSIVE RStrip(_)
RStrip(s) == IF s # <<>> /\ IsSpace(s[Len(s)]) THEN RStrip(SubSeq(s, 1, Len(s) - 1)) ELSE s

\* str.strip()
Strip(s) == RStrip(LStrip(s))

\* x or "."
OrDot(s) == IF s = <<>> THEN <<DOT>> ELSE s

\* a plausible slip: whitespace is stripped before the control characters go
SanitizeStripFirst(raw) == OrDot(DropControl(Strip(raw)))

Sanitize(raw) == OrDot(Strip(DropControl(raw)))

\* the code points raw titles are drawn from: a control character, tab,
\* a separator below space, space, ".", "a", no-break space
TitleChars == {1, TAB, 31, SPACE, DOT, 97, 160}

RawTitles == SeqsUpTo(TitleChars, MaxLen)

----------------------------------------------------------------------------
(* Topics: a topic is a dict with the optional keys "title", "image",      *)
(* "topics" (grouped shape: an ordered mapping group -> list of topics,    *)
(* kept as a sequence of [name, nodes] in insertion order) and "children"  *)
(* (a dict with the optional keys "attached" and "detached").              *)

EmptyDict == <<>>

Has(d, key) == key \in DOMAIN d

RECURSIVE GroupValues(_)
\* lines 82-84: for group in topics.values(): for child in group: yield child
GroupValues(groups) ==
    IF groups = <<>> THEN <<>>
    ELSE Head(groups).nodes \o GroupValues(Tail(groups))

\* lines 85-88: children.get(key, [])
ChildList(children, key) == IF Has(children, key) THEN children[key] ELSE <<>>

\* a plausible slip: the attached/detached lists are yielded before the groups
IterChildrenListsFirst(topic) ==
    LET groups == IF Has(topic, "topics") THEN topic.topics ELSE <<>>
        children == IF Has(topic, "children") THEN topic.children ELSE EmptyDict
    IN  ChildList(children, "attached") \o ChildList(children, "detached")
            \o GroupValues(groups)

\* list(iter_children(topic))
IterChildren(topic) ==
    LET groups == IF Has(topic, "topics") THEN topic.topics ELSE <<>>
        children == IF Has(topic, "children") THEN topic.children ELSE EmptyDict
    IN  GroupValues(groups) \o ChildList(children, "attached")
            \o ChildList(children, "detached")

\* str(topic.get("title", "") or "")
RawTitle(topic) == IF Has(topic, "title") THEN topic.title ELSE <<>>

\* builders for topics
Leaf(t) == [title |-> t]
WithImage(n, src) == n @@ [image |-> [src |-> src]]
WithChildren(n, c) == n @@ [children |-> c]
WithTopics(n, g) == n @@ [topics |-> g]
Group(name, nodes) == [name |-> name, nodes |-> nodes]

----------------------------------------------------------------------------
(* Archives: zf.namelist() is a sequence of member names, zf.read(name)    *)
(* looks the contents up by name.  A name is a sequence of path tokens.    *)

ResourcesPrefix == <<"resources", "/">>
Slash == <<"/">>
XapPrefix == <<"xap:">>

Put(m, key, value) == (key :> value) @@ m

\* a plausible slip: the compatibility key is not stored
ResourceStepNoAlias(m, z, name) ==
    IF ~StartsWith(name, ResourcesPrefix) THEN m
    ELSE IF EndsWith(name, Slash) THEN m
    ELSE Put(m, name, z.data[name])

\* lines 43-49: one iteration of the loop over zf.namelist()
ResourceStep(m, z, name) ==
    IF ~StartsWith(name, ResourcesPrefix) THEN m
    ELSE IF EndsWith(name, Slash) THEN m
    ELSE LET data == z.data[name] IN Put(Put(m, name, data), XapPrefix \o name, data)

RECURSIVE ResourceLoop(_, _, _)
ResourceLoop(m, z, i) ==
    IF i > Len(z.names) THEN m
    ELSE ResourceLoop(ResourceStep(m, z, z.names[i]), z, i + 1)

ExtractResources(z) == ResourceLoop(EmptyDict, z, 1)

----------------------------------------------------------------------------
(* Idle values: each specification below drives one part of the program    *)
(* and leaves the variables of the other parts at these values.            *)

NoFile == [isZip |-> FALSE, names |-> <<>>, data |-> EmptyDict]

NoLib == [kind |-> "unavailable", topic |-> <<>>]

NoResult == [raised |-> FALSE, root |-> <<>>, assets |-> EmptyDict]

MainIdle ==
    /\ pc = "idle" /\ srcExists = FALSE /\ noToc = FALSE /\ imgWidth = 0
    /\ outputArg = <<>> /\ output_path = <<>>
    /\ file = NoFile /\ xmindLib = NoLib /\ jsonResult = NoResult
    /\ legacyCalled = FALSE /\ root_topic = <<>>
    /\ assets = EmptyDict /\ docTitle = <<>> /\ indentOk = FALSE /\ doc = <<>> /\ stack = <<>>
    /\ exitCode = -1 /\ message = <<>> /\ saved = <<>>

SanIdle == sanPc = "idle" /\ sanRaw = <<>> /\ sanOut = <<>> /\ sanTwice = <<>>

ResIdle == resPc = "idle" /\ zf = EmptyDict /\ resIdx = 0 /\ mapping = EmptyDict

ItIdle == itPc = "idle" /\ itTopic = EmptyDict /\ itOut = <<>>

----------------------------------------------------------------------------
(* SpecSanitize: the title sanitization applied to a raw title, and then   *)
(* to its own output.                                                      *)

InitSanitize ==
    /\ sanPc = "raw" /\ sanRaw \in RawTitles /\ sanOut = <<>> /\ sanTwice = <<>>
    /\ MainIdle /\ ResIdle /\ ItIdle

SanitizeOnce ==
    /\ sanPc = "raw"
    /\ sanOut' = Sanitize(sanRaw)
    /\ sanPc' = "once"
    /\ UNCHANGED <<sanRaw, sanTwice, mainVars, resVars, itVars>>

SanitizeAgain ==
    /\ sanPc = "once"
    /\ sanTwice' = Sanitize(sanOut)
    /\ sanPc' = "twice"
    /\ UNCHANGED <<sanRaw, sanOut, mainVars, resVars, itVars>>

NextSanitize == SanitizeOnce \/ SanitizeAgain

SpecSanitize == InitSanitize /\ [][NextSanitize]_vars

----------------------------------------------------------------------------
(* SpecResources: extract_resources run over an archive, one member per    *)
(* step.                                                                   *)

NameTokens == {"resources", "/", "a"}

\* path-like names: segments and separators alternate, so "resources/a",
\* "resources/", "/resources/a", "a/resources" and the like
PlainNames ==
    {n \in SeqsUpTo(NameTokens, MaxNameLen) \ {<<>>} :
        \A i \in 1..(Len(n) - 1) : (n[i] = "/") # (n[i + 1] = "/")}

\* member names that already carry the alias token
XapNames == {XapPrefix \o n : n \in {m \in PlainNames : StartsWith(m, <<"resources">>)}}

ResNames == PlainNames \cup XapNames

\* every member holds bytes of its own
ContentOf(name) == <<"bytes of">> \o name

InitResources ==
    /\ resPc = "loop" /\ resIdx = 1 /\ mapping = EmptyDict
    /\ \E names \in SeqsUpTo(ResNames, MaxEntries) :
          zf = [names |-> names, data |-> [n \in Range(names) |-> ContentOf(n)]]
    /\ MainIdle /\ SanIdle /\ ItIdle

\* lines 42-49: one iteration
ResourceIteration ==
    /\ resPc = "loop" /\ resIdx <= Len(zf.names)
    /\ mapping' = ResourceStep(mapping, zf, zf.names[resIdx])
    /\ resIdx' = resIdx + 1
    /\ UNCHANGED <<resPc, zf, mainVars, sanVars, itVars>>

\* line 50: return mapping
ResourceReturn ==
    /\ resPc = "loop" /\ resIdx > Len(zf.names)
    /\ resPc' = "done"
    /\ UNCHANGED <<zf, resIdx, mapping, mainVars, sanVars, itVars>>

NextResources == ResourceIteration \/ ResourceReturn

SpecResources == InitResources /\ [][NextResources]_vars

----------------------------------------------------------------------------
(* SpecIter: iter_children applied to one topic.                           *)

IterLeaves == {Leaf(<<97>>), Leaf(<<98>>)}

KidLists == SeqsUpTo(IterLeaves, MaxKids)

GroupNames == <<"attached", "detached", "summary">>

\* the "topics" values: up to MaxGroups groups, in insertion order
TopicsValues ==
    UNION {{[i \in 1..k |-> Group(GroupNames[((i - 1) % 3) + 1], f[i])] : f \in [1..k -> KidLists]}
           : k \in 0..MaxGroups}

\* the "children" values: each of "attached" and "detached" present or not
ChildrenValues ==
    {EmptyDict}
    \cup {[attached |-> a] : a \in KidLists}
    \cup {[detached |-> d] : d \in KidLists}
    \cup {[attached |-> a, detached |-> d] : a \in KidLists, d \in KidLists}

IterTopics ==
    LET base == Leaf(<<97>>) IN
    {base}
    \cup {WithTopics(base, g) : g \in TopicsValues}
    \cup {WithChildren(base, c) : c \in ChildrenValues}
    \cup {WithChildren(WithTopics(base, g), c) : g \in TopicsValues, c \in ChildrenValues}

InitIter ==
    /\ itPc = "call" /\ itTopic \in IterTopics /\ itOut = <<>>
    /\ MainIdle /\ SanIdle /\ ResIdle

IterCall ==
    /\ itPc = "call"
    /\ itOut' = IterChildren(itTopic)
    /\ itPc' = "done"
    /\ UNCHANGED <<itTopic, mainVars, sanVars, resVars>>

NextIter == IterCall

SpecIter == InitIter /\ [][NextIter]_vars

----------------------------------------------------------------------------
(* Binary contents and the picture sink *)

PngBytes == <<"PNG_SIG", "body">>
GifBytes == <<"GIF_SIG", "body">>
BrokenBmpBytes == <<"BM", "truncated">>
TiffBytes == <<"TIFF_SIG", "body">>
SvgBytes == <<"<svg", "body">>

\* line 121: imghdr.what(None, h=data) looks at the leading signature
ImghdrWhat(data) ==
    CASE data[1] = "PNG_SIG" -> "png"
      [] data[1] = "GIF_SIG" -> "gif"
      [] data[1] = "JPEG_SIG" -> "jpeg"
      [] data[1] = "BM" -> "bmp"
      [] data[1] = "TIFF_SIG" -> "tiff"
      [] OTHER -> "None"

\* line 122
SupportedKinds == {"png", "jpeg", "bmp", "gif"}

\* line 123: document.add_picture raises on contents it cannot decode
SinkAcceptsPicture(data) == "truncated" \notin Range(data)

----------------------------------------------------------------------------
(* Document blocks *)

HeadingBlock(text, level) == [kind |-> "heading", text |-> text, level |-> level]

\* indent is Optional: empty when the style did not take the indent
BulletBlock(text, indent) ==
    [kind |-> "paragraph", style |-> "List Bullet", text |-> text, indent |-> indent]

PictureBlock(data, width) == [kind |-> "picture", data |-> data, width |-> width]

\* lines 33-36: add_toc appends one paragraph holding the TOC field
TocBlock == [kind |-> "field", instr |-> "TOC \\o \"1-3\" \\h \\z \\u"]

\* a plausible slip: "not" is dropped from "if not args.no_toc", seen from add_toc:
\* add_toc leaves the field out of the document
AddTocNothing(d) == d

AddToc(d) == Append(d, TocBlock)

----------------------------------------------------------------------------
(* The files and trees the main program is run on *)

ContentJson == <<"content.json">>
KeyPng == ResourcesPrefix \o <<"p.png">>
KeySvg == ResourcesPrefix \o <<"q.svg">>
KeyBmp == ResourcesPrefix \o <<"r.bmp">>
KeyTiff == ResourcesPrefix \o <<"t.tif">>
KeyEmpty == ResourcesPrefix \o <<"e.png">>
KeyOutside == <<"other", "/", "x.gif">>
KeyMissing == ResourcesPrefix \o <<"gone.png">>

ResourceMembers == <<ResourcesPrefix, KeyPng, KeySvg, KeyBmp, KeyTiff, KeyEmpty, KeyOutside>>

ResourceData ==
    (ResourcesPrefix :> <<>>) @@ (KeyPng :> PngBytes) @@ (KeySvg :> SvgBytes)
    @@ (KeyBmp :> BrokenBmpBytes) @@ (KeyTiff :> TiffBytes) @@ (KeyEmpty :> <<>>)
    @@ (KeyOutside :> GifBytes)

TitleA == <<97>>
TitleB == <<SPACE, 98, 1>>
TitleC == <<99>>
TitleD == <<100, SPACE, 100>>
TitleCtl == <<1, TAB>>

\* a lone topic with a picture
TreeLeaf == WithImage(Leaf(TitleA), KeyPng)

\* A{B, C{D}} in the attached/detached shape, every image case once
TreeScenario ==
    WithChildren(WithImage(Leaf(TitleA), KeyMissing),
        [attached |->
            << WithImage(Leaf(TitleB), KeySvg),
               WithImage(WithChildren(Leaf(TitleC),
                            [attached |-> << WithImage(Leaf(TitleD), XapPrefix \o KeyPng) >>]),
                         KeyBmp) >>])

\* both shapes at once, titles that sanitize to the fallback, a topic
\* without a title
TreeMixed ==
    WithChildren(
        WithTopics(WithImage(Leaf(TitleCtl), KeyTiff),
            << Group("attached", << WithImage(Leaf(TitleB), KeyMissing) >>),
               Group("summary", << Leaf(TitleC), WithImage(Leaf(<<>>), KeyOutside) >>) >>),
        [detached |-> << WithImage(EmptyDict, KeyEmpty) >>,
         attached |-> << WithImage(Leaf(TitleD), KeyPng) >>])

\* a topic with nothing in it
TreeBare == EmptyDict

BaseTrees == {TreeLeaf, TreeScenario, TreeMixed, TreeBare}

Shapes == {"children", "topics"}

\* one more ancestor above t: t is its first child, a leaf follows it
Wrap(t, shape) ==
    IF shape = "children"
    THEN WithChildren(Leaf(TitleA), [attached |-> <<t>>, detached |-> <<Leaf(TitleC)>>])
    ELSE WithTopics(Leaf(TitleA), <<Group("attached", <<t, Leaf(TitleC)>>)>>)

RECURSIVE Chain(_, _, _)
Chain(k, t, shape) == IF k = 0 THEN t ELSE Wrap(Chain(k - 1, t, shape), shape)

Trees == {Chain(k, t, sh) : k \in 0..MaxChain, t \in BaseTrees, sh \in Shapes}

\* JSON values carry their type; a topic is kept as the dict it is
JList(items) == [t |-> "list", v |-> items]
JDict(d) == [t |-> "dict", v |-> d]
JNumber == [t |-> "number", v |-> 0]

\* the bytes of the JSON text of v
JsonText(v) == <<"JSON", v>>

SheetWith(topic) == JDict([rootTopic |-> <<topic>>])

\* an archive with the given content.json bytes, with or without resources
Zip(content, withResources) ==
    [isZip |-> TRUE,
     names |-> IF withResources THEN <<ContentJson>> \o ResourceMembers ELSE <<ContentJson>>,
     data |-> IF withResources THEN (ContentJson :> content) @@ ResourceData
              ELSE (ContentJson :> content)]

GoodFiles == {Zip(JsonText(JList(<<SheetWith(t)>>)), r) : t \in Trees, r \in BOOLEAN}

\* two members end in content.json: the first one in namelist() order counts
TwoCandidates ==
    [isZip |-> TRUE,
     names |-> << <<"sub", "/", "content.json">>, ContentJson >>,
     data |-> (<<"sub", "/", "content.json">> :> JsonText(JList(<<SheetWith(TreeScenario)>>)))
              @@ (ContentJson :> JsonText(JList(<<SheetWith(TreeLeaf)>>)))]

NotAZip == [isZip |-> FALSE, names |-> <<>>, data |-> EmptyDict]

\* an old-format archive: resources, content.xml, no content.json
NoContentJson ==
    [isZip |-> TRUE, names |-> << <<"content.xml">> >> \o ResourceMembers,
     data |-> (<<"content.xml">> :> <<"<xmap", "body">>) @@ ResourceData]

BadFiles ==
    { NotAZip, NoContentJson,
      Zip(<<"not json">>, TRUE),                       \* json.loads raises
      Zip(JsonText(JList(<<>>)), TRUE),                \* doc[0] raises
      Zip(JsonText(JDict(EmptyDict)), TRUE),           \* doc[0] raises
      Zip(JsonText(JList(<<JNumber>>)), TRUE),         \* sheet.get raises
      Zip(JsonText(JList(<<JDict(EmptyDict)>>)), TRUE),          \* no rootTopic
      Zip(JsonText(JList(<<JDict([rootTopic |-> <<>>])>>)), TRUE) \* rootTopic: null
    }

Files == GoodFiles \cup {TwoCandidates} \cup BadFiles

----------------------------------------------------------------------------
(* load_from_content_json, lines 53-67 *)

Raised == [raised |-> TRUE, root |-> <<>>, assets |-> EmptyDict]

Returned(root, a) == [raised |-> FALSE, root |-> root, assets |-> a]

IsContentJson(name) == EndsWith(name, ContentJson)

IsJsonText(data) == data # <<>> /\ data[1] = "JSON"

\* lines 56-65: the body of the try
LoadBody(f) ==
    IF ~f.isZip THEN Raised                                   \* zipfile.ZipFile
    ELSE LET candidates == SelectSeq(f.names, IsContentJson) IN
         IF candidates = <<>> THEN Returned(<<>>, EmptyDict)  \* line 60
         ELSE LET a == ExtractResources(f)
                  data == f.data[candidates[1]]
              IN  IF ~IsJsonText(data) THEN Raised            \* json.loads
                  ELSE LET d == data[2] IN
                       IF d.t # "list" \/ d.v = <<>> THEN Raised      \* doc[0]
                       ELSE LET sheet == d.v[1] IN
                            IF sheet.t # "dict" THEN Raised           \* sheet.get
                            ELSE Returned(IF Has(sheet.v, "rootTopic")
                                          THEN sheet.v.rootTopic ELSE <<>>, a)

\* a plausible slip: the try/except is missing
LoadFromContentJsonUncaught(f) == LoadBody(f)

\* lines 55, 66-67: any exception becomes (None, {})
LoadFromContentJson(f) ==
    LET r == LoadBody(f) IN IF r.raised THEN Returned(<<>>, EmptyDict) ELSE r

----------------------------------------------------------------------------
(* load_from_xmind_lib, lines 70-77 *)

\* what the legacy parser gives for old-format files
LegacyTree ==
    WithChildren(Leaf(TitleA),
        [attached |-> << Leaf(TitleB),
                         WithChildren(Leaf(TitleC), [attached |-> <<Leaf(TitleD)>>]) >>])

\* the library is not installed; or xmind.load raises on the file; or the
\* sheet data has no "topic"; or it has one
LegacyLibs ==
    { NoLib,
      [kind |-> "raises", topic |-> <<>>],
      [kind |-> "loads", topic |-> <<>>],
      [kind |-> "loads", topic |-> <<LegacyTree>>],
      [kind |-> "loads", topic |-> <<TreeBare>>] }

\* a plausible slip: without the library an empty topic comes back, not None
LoadFromXmindLibEmptyTopic(lib) ==
    IF lib.kind = "unavailable" THEN Returned(<<EmptyDict>>, EmptyDict)
    ELSE IF lib.kind = "raises" THEN Raised
    ELSE Returned(lib.topic, EmptyDict)

LoadFromXmindLib(lib) ==
    IF lib.kind = "unavailable" THEN Returned(<<>>, EmptyDict)      \* lines 72-73
    ELSE IF lib.kind = "raises" THEN Raised                        \* line 74
    ELSE Returned(lib.topic, EmptyDict)                            \* line 77

----------------------------------------------------------------------------
(* add_topic, lines 91-132.  The recursion is kept as a stack of pending   *)
(* calls: a call appends its blocks and puts the calls for its children,   *)
(* first child first, in front of the calls that were already pending.     *)

MaxHeading == 9
IndentPerLevel == 25       \* 0.25 inch, in hundredths of an inch

Frame(topic, level, width) == [topic |-> topic, level |-> level, width |-> width]

\* a plausible slip: only the root becomes a heading
TextBlockRootOnly(title, level, is_leaf, indents) ==
    IF level = 1
    THEN HeadingBlock(title, Min(level, MaxHeading))
    ELSE BulletBlock(title, IF indents THEN <<IndentPerLevel * Max(level - 1, 0)>> ELSE <<>>)

\* a plausible slip: the heading level is not capped
TextBlockUncapped(title, level, is_leaf, indents) ==
    IF level = 1 \/ ~is_leaf
    THEN HeadingBlock(title, level)
    ELSE BulletBlock(title, IF indents THEN <<IndentPerLevel * Max(level - 1, 0)>> ELSE <<>>)

\* lines 104-112
TextBlock(title, level, is_leaf, indents) ==
    IF level = 1 \/ ~is_leaf
    THEN HeadingBlock(title, Min(level, MaxHeading))
    ELSE BulletBlock(title, IF indents THEN <<IndentPerLevel * Max(level - 1, 0)>> ELSE <<>>)

\* lines 115-116: image = topic.get("image") or {}; src = image.get("src")
ImageSrc(topic) ==
    IF Has(topic, "image") /\ Has(topic.image, "src") THEN topic.image.src ELSE <<>>

\* a plausible slip: the sniffed kind is not checked
PictureBlocksAnyKind(topic, a, width) ==
    LET src == ImageSrc(topic) IN
    IF src = <<>> THEN <<>>
    ELSE IF ~Has(a, src) \/ a[src] = <<>> THEN <<>>
    ELSE IF ~SinkAcceptsPicture(a[src]) THEN <<>>
    ELSE <<PictureBlock(a[src], width)>>

\* lines 117-129: the picture appended for the topic, if any
PictureBlocks(topic, a, width) ==
    LET src == ImageSrc(topic) IN
    IF src = <<>> THEN <<>>                                      \* if src
    ELSE IF ~Has(a, src) \/ a[src] = <<>> THEN <<>>              \* if data
    ELSE IF ImghdrWhat(a[src]) \notin SupportedKinds THEN <<>>   \* line 122
    ELSE IF ~SinkAcceptsPicture(a[src]) THEN <<>>                \* except Exception
    ELSE <<PictureBlock(a[src], width)>>

RECURSIVE Reverse(_)
Reverse(s) == IF s = <<>> THEN <<>> ELSE Append(Reverse(Tail(s)), Head(s))

\* a plausible slip: the children are walked last child first
ChildFramesReversed(children, level, width) ==
    [i \in 1..Len(children) |-> Frame(Reverse(children)[i], level + 1, width)]

\* lines 131-132: one call per child, at level + 1
ChildFrames(children, level, width) ==
    [i \in 1..Len(children) |-> Frame(children[i], level + 1, width)]

----------------------------------------------------------------------------
(* main, lines 149-183 *)

SourcePath == <<"maps", "/", "plan", ".xmind">>

\* Path.with_suffix(".docx")
WithSuffixDocx(path) == SubSeq(path, 1, Len(path) - 1) \o <<".docx">>

\* lines 163-164: a bare file name is put under the working directory
UnderCwd(path) == IF "/" \in Range(path) THEN path ELSE <<"cwd", "/">> \o path

OutputArgs == {<<>>, <<"report", ".docx">>}

\* tenths of an inch: 0 is below the floor of 0.1, 60 is the default
ImgWidths == {0, 60}

MinWidth == 1

XMindTitle == <<88, 77, 105, 110, 100>>

\* line 150
ParseArgs ==
    /\ pc = "args"
    /\ \E t \in BOOLEAN, w \in ImgWidths, o \in OutputArgs :
          /\ noToc' = t
          /\ imgWidth' = w
          /\ outputArg' = o
    /\ pc' = "check"
    /\ UNCHANGED <<srcExists, output_path, file, xmindLib, jsonResult, legacyCalled,
                   root_topic, assets, docTitle, indentOk, doc, stack, exitCode, message, saved>>
    /\ UNCHANGED <<sanVars, resVars, itVars>>

\* lines 152-156: the source file is missing
SourceMissing ==
    /\ pc = "check"
    /\ srcExists' = FALSE
    /\ message' = <<"not found", SourcePath>>
    /\ exitCode' = 1
    /\ pc' = "exit"
    /\ UNCHANGED <<noToc, imgWidth, outputArg, output_path, file, xmindLib, jsonResult,
                   legacyCalled, root_topic, assets, docTitle, indentOk, doc, stack, saved>>
    /\ UNCHANGED <<sanVars, resVars, itVars>>

\* lines 152-164: the source file is there, the output path is settled
SourceFound ==
    /\ pc = "check"
    /\ srcExists' = TRUE
    /\ output_path' = UnderCwd(IF outputArg # <<>> THEN outputArg
                               ELSE WithSuffixDocx(SourcePath))
    /\ pc' = "load"
    /\ UNCHANGED <<noToc, imgWidth, outputArg, file, xmindLib, jsonResult, legacyCalled,
                   root_topic, assets, docTitle, indentOk, doc, stack, exitCode, message, saved>>
    /\ UNCHANGED <<sanVars, resVars, itVars>>

\* lines 167-168
LoadContentJson ==
    /\ pc = "load"
    /\ \E f \in Files :
          LET r == LoadFromContentJson(f) IN
          /\ file' = f
          /\ jsonResult' = r
          /\ IF r.raised
             THEN /\ message' = <<"traceback">>
                  /\ exitCode' = 1
                  /\ pc' = "exit"
                  /\ UNCHANGED <<root_topic, assets>>
             ELSE /\ root_topic' = r.root
                  /\ assets' = r.assets
                  /\ pc' = IF r.root = <<>> THEN "fallback" ELSE "parsed"
                  /\ UNCHANGED <<message, exitCode>>
    /\ UNCHANGED <<srcExists, noToc, imgWidth, outputArg, output_path, xmindLib,
                   legacyCalled, docTitle, indentOk, doc, stack, saved>>
    /\ UNCHANGED <<sanVars, resVars, itVars>>

\* line 169: the legacy parser returns
Fallback ==
    /\ pc = "fallback"
    /\ \E lib \in LegacyLibs :
          LET r == LoadFromXmindLib(lib) IN
          /\ ~r.raised
          /\ xmindLib' = lib
          /\ root_topic' = r.root
          /\ assets' = r.assets
    /\ legacyCalled' = TRUE
    /\ pc' = "parsed"
    /\ UNCHANGED <<srcExists, noToc, imgWidth, outputArg, output_path, file, jsonResult,
                   docTitle, indentOk, doc, stack, exitCode, message, saved>>
    /\ UNCHANGED <<sanVars, resVars, itVars>>

\* line 169: the legacy parser raises, nothing in main catches it
FallbackRaises ==
    /\ pc = "fallback"
    /\ \E lib \in LegacyLibs :
          /\ LoadFromXmindLib(lib).raised
          /\ xmindLib' = lib
    /\ legacyCalled' = TRUE
    /\ message' = <<"traceback">>
    /\ exitCode' = 1
    /\ pc' = "exit"
    /\ UNCHANGED <<srcExists, noToc, imgWidth, outputArg, output_path, file, jsonResult,
                   root_topic, assets, docTitle, indentOk, doc, stack, saved>>
    /\ UNCHANGED <<sanVars, resVars, itVars>>

\* lines 170-172
ParseFailed ==
    /\ pc = "parsed"
    /\ root_topic = <<>>
    /\ message' = <<"cannot parse">>
    /\ exitCode' = 1
    /\ pc' = "exit"
    /\ UNCHANGED <<srcExists, noToc, imgWidth, outputArg, output_path, file, xmindLib,
                   jsonResult, legacyCalled, root_topic, assets, docTitle, indentOk, doc, stack,
                   saved>>
    /\ UNCHANGED <<sanVars, resVars, itVars>>

\* lines 175-179, up to the call of add_topic on the root; whether the List
\* Bullet style of the new document takes an indent (lines 109-112) is a
\* property of the document
Build ==
    /\ pc = "parsed"
    /\ root_topic # <<>>
    /\ docTitle' = IF Has(root_topic[1], "title") THEN root_topic[1].title ELSE XMindTitle
    /\ indentOk' \in BOOLEAN
    /\ doc' = IF ~noToc THEN AddToc(<<>>) ELSE <<>>
    /\ stack' = <<Frame(root_topic[1], 1, Max(imgWidth, MinWidth))>>
    /\ pc' = "walk"
    /\ UNCHANGED <<srcExists, noToc, imgWidth, outputArg, output_path, file, xmindLib,
                   jsonResult, legacyCalled, root_topic, assets, exitCode, message, saved>>
    /\ UNCHANGED <<sanVars, resVars, itVars>>

\* lines 99-132: the next pending call of add_topic
AddTopic ==
    /\ pc = "walk"
    /\ stack # <<>>
    /\ LET fr == Head(stack)
           title == Sanitize(RawTitle(fr.topic))
           children == IterChildren(fr.topic)
           is_leaf == Len(children) = 0
       IN  /\ doc' = Append(doc, TextBlock(title, fr.level, is_leaf, indentOk))
                         \o PictureBlocks(fr.topic, assets, fr.width)
           /\ stack' = ChildFrames(children, fr.level, fr.width) \o Tail(stack)
    /\ UNCHANGED <<pc, srcExists, noToc, imgWidth, outputArg, output_path, file, xmindLib,
                   jsonResult, legacyCalled, root_topic, assets, docTitle, indentOk, exitCode,
                   message, saved>>
    /\ UNCHANGED <<sanVars, resVars, itVars>>

\* lines 181-183: add_topic has returned
Save ==
    /\ pc = "walk"
    /\ stack = <<>>
    /\ saved' = <<output_path>>
    /\ message' = <<"generated", output_path>>
    /\ exitCode' = 0
    /\ pc' = "exit"
    /\ UNCHANGED <<srcExists, noToc, imgWidth, outputArg, output_path, file, xmindLib,
                   jsonResult, legacyCalled, root_topic, assets, docTitle, indentOk, doc, stack>>
    /\ UNCHANGED <<sanVars, resVars, itVars>>

Init ==
    /\ pc = "args" /\ srcExists = FALSE /\ noToc = FALSE /\ imgWidth = 0
    /\ outputArg = <<>> /\ output_path = <<>>
    /\ file = NoFile /\ xmindLib = NoLib /\ jsonResult = NoResult
    /\ legacyCalled = FALSE /\ root_topic = <<>>
    /\ assets = EmptyDict /\ docTitle = <<>> /\ indentOk = FALSE /\ doc = <<>> /\ stack = <<>>
    /\ exitCode = -1 /\ message = <<>> /\ saved = <<>>
    /\ SanIdle /\ ResIdle /\ ItIdle

Next ==
    \/ ParseArgs
    \/ SourceMissing
    \/ SourceFound
    \/ LoadContentJson
    \/ Fallback
    \/ FallbackRaises
    \/ ParseFailed
    \/ Build
    \/ AddTopic
    \/ Save

Spec == Init /\ [][Next]_vars

\* the program is one thread that runs to its exit: no step waits on anything
FairSpec == Spec /\ WF_vars(Next)

----------------------------------------------------------------------------
(* Properties of the title sanitization (SpecSanitize) *)

\* every code point of s lies below the space character
AllControl(s) == \A i \in 1..Len(s) : s[i] < SPACE

\* C7: the sanitized title is never empty, it is "." for an empty or
\* all-control-character raw title, and sanitizing the sanitized title gives it
\* back unchanged.
C7_SanitizeNonEmptyIdempotent ==
    /\ sanPc \in {"once", "twice"} =>
          /\ sanOut # <<>>
          /\ AllControl(sanRaw) => sanOut = <<DOT>>
    /\ sanPc = "twice" => sanTwice = sanOut

\* a raw title with a control character, inner whitespace and surrounding
\* whitespace has been sanitized twice, and the result is not the fallback
C7_Witness ==
    /\ sanPc = "twice"
    /\ sanRaw = <<SPACE, 1, 97>>
    /\ sanOut = <<97>>

----------------------------------------------------------------------------
(* Properties of extract_resources (SpecResources) *)

\* a member that extract_resources is to store
IsResourceFile(name) == StartsWith(name, ResourcesPrefix) /\ name[Len(name)] # "/"

\* C8: once extract_resources has returned, every non-directory member p under
\* "resources/" is a key, "xap:" + p is a key, both map to the bytes of p, and
\* every key of the mapping is one of these two keys of such a member.
C8_ResourcesBothKeys ==
    resPc = "done" =>
        /\ \A i \in 1..Len(zf.names) :
              LET p == zf.names[i] IN
              IsResourceFile(p) =>
                  /\ p \in DOMAIN mapping
                  /\ (XapPrefix \o p) \in DOMAIN mapping
                  /\ mapping[p] = zf.data[p]
                  /\ mapping[XapPrefix \o p] = zf.data[p]
        /\ \A k \in DOMAIN mapping :
              \E i \in 1..Len(zf.names) :
                  /\ IsResourceFile(zf.names[i])
                  /\ k \in {zf.names[i], XapPrefix \o zf.names[i]}

\* an archive with a directory entry and a file under resources/ has been
\* scanned: the file is stored under two keys, the directory under none
C8_Witness ==
    /\ resPc = "done"
    /\ zf.names = <<ResourcesPrefix, ResourcesPrefix \o <<"a">> >>
    /\ Cardinality(DOMAIN mapping) = 2

----------------------------------------------------------------------------
(* Properties of iter_children (SpecIter) *)

RECURSIVE FirstGroups(_, _)
\* the nodes of the first n groups, group after group
FirstGroups(groups, n) ==
    IF n = 0 THEN <<>> ELSE FirstGroups(groups, n - 1) \o groups[n].nodes

----------------------------------------------------------------------------
(* Properties of add_topic and main (Spec, FairSpec) *)

IsTextBlock(b) == b.kind \in {"heading", "paragraph"}

IsPictureBlock(b) == b.kind = "picture"

IsFieldBlock(b) == b.kind = "field"

NotFieldBlock(b) == b.kind # "field"

\* a call of add_topic is about to run
CallPending == pc = "walk" /\ stack # <<>>

\* what the step from doc to doc' appended
Appended(old, new) == SubSeq(new, Len(old) + 1, Len(new))

\* C1: every call of add_topic appends exactly one text block: a heading if the
\* call is at level 1 or the topic has a child, a List Bullet paragraph
\* otherwise.
C1_OneTextBlockPerNode ==
    [][CallPending =>
          LET fr == Head(stack)
              kids == IterChildren(fr.topic)
              texts == SelectSeq(Appended(doc, doc'), IsTextBlock)
          IN  /\ Len(doc') > Len(doc) /\ SubSeq(doc', 1, Len(doc)) = doc
              /\ Len(texts) = 1
              /\ (fr.level = 1 \/ Len(kids) >= 1) => texts[1].kind = "heading"
              /\ (fr.level > 1 /\ Len(kids) = 0) =>
                    texts[1].kind = "paragraph" /\ texts[1].style = "List Bullet"
      ]_vars

\* a heading below level 1 (a topic with children) and a bullet (a leaf) are
\* both in the document
C1_Witness ==
    /\ pc = "walk"
    /\ \E i, j \in 1..Len(doc) :
          /\ doc[i].kind = "heading" /\ doc[i].level = 2
          /\ doc[j].kind = "paragraph"

RECURSIVE PreOrder(_, _), PreOrderAll(_, _)
\* the nodes of the subtree of topic with their depths: the node, then the
\* subtree of each child in turn
PreOrder(topic, level) ==
    <<[topic |-> topic, level |-> level]>> \o PreOrderAll(IterChildren(topic), level + 1)
PreOrderAll(list, level) ==
    IF list = <<>> THEN <<>>
    ELSE PreOrder(Head(list), level) \o PreOrderAll(Tail(list), level)

RECURSIVE NodeCount(_), NodeCountAll(_)
NodeCount(topic) == 1 + NodeCountAll(IterChildren(topic))
NodeCountAll(list) ==
    IF list = <<>> THEN 0 ELSE NodeCount(Head(list)) + NodeCountAll(Tail(list))

\* block is the text block of node: its text, and its depth as far as the
\* block shows it
BlockIsFor(block, node) ==
    /\ block.text = Sanitize(RawTitle(node.topic))
    /\ block.kind = "heading" => block.level = IF node.level <= 9 THEN node.level ELSE 9
    /\ (block.kind = "paragraph" /\ block.indent # <<>>) =>
          block.indent[1] = 25 * (node.level - 1)

TextIsPreOrder ==
    LET texts == SelectSeq(doc, IsTextBlock)
        nodes == PreOrder(root_topic[1], 1)
    IN  /\ Len(texts) = Len(nodes)
        /\ Len(texts) = NodeCount(root_topic[1])
        /\ \A i \in 1..Len(texts) : BlockIsFor(texts[i], nodes[i])

\* C2: once add_topic is called on the root the walk comes to its end, and
\* the text blocks of the document are then the pre-order traversal of the
\* tree, one block per node.
C2_PreOrderAndTerminates ==
    (pc = "walk") ~> (pc = "exit" /\ exitCode = 0 /\ TextIsPreOrder)

\* the walk of A{B, C{D}} is over: heading A, bullet B, heading C, bullet D
C2_Witness ==
    /\ pc = "exit" /\ exitCode = 0
    /\ root_topic = <<TreeScenario>>
    /\ LET texts == SelectSeq(doc, IsTextBlock) IN
       /\ Len(texts) = 4
       /\ <<texts[1].kind, texts[2].kind, texts[3].kind, texts[4].kind>>
             = <<"heading", "paragraph", "heading", "paragraph">>
       /\ <<texts[1].text, texts[2].text, texts[3].text, texts[4].text>>
             = <<TitleA, <<98>>, TitleC, TitleD>>

\* C3: every heading appended by a call of add_topic at depth d has level
\* min(d, 9): d itself up to 9, and 9 beyond; the level lies within 1..9.
C3_HeadingLevelCapped ==
    [][CallPending =>
          LET d == Head(stack).level
              new == Appended(doc, doc')
          IN  \A i \in 1..Len(new) :
                  new[i].kind = "heading" =>
                      /\ new[i].level \in 1..9
                      /\ d <= 9 => new[i].level = d
                      /\ d > 9 => new[i].level = 9
      ]_vars

\* headings have been appended at depth 9 and at depth 10
C3_Witness ==
    /\ pc = "walk"
    /\ stack # <<>> /\ Head(stack).level >= 11
    /\ Cardinality({i \in 1..Len(doc) : doc[i].kind = "heading" /\ doc[i].level = 9}) >= 2

\* the topic without its image
StripImage(topic) == [k \in DOMAIN topic \ {"image"} |-> topic[k]]

\* the topic names an image that is not in the mapping, or whose bytes are
\* empty, or whose sniffed kind is not supported, or that the sink rejects
ImageFails(topic, a) ==
    /\ Has(topic, "image") /\ Has(topic.image, "src") /\ topic.image.src # <<>>
    /\ LET src == topic.image.src IN
          \/ src \notin DOMAIN a
          \/ a[src] = <<>>
          \/ ImghdrWhat(a[src]) \notin {"png", "jpeg", "bmp", "gif"}
          \/ "truncated" \in Range(a[src])

\* C4: a call of add_topic on a topic whose image cannot be embedded appends
\* no picture and raises nothing: it does what it does for the same topic
\* without the image, text block and calls for the children included.
C4_BadImageSkipped ==
    [][(CallPending /\ ImageFails(Head(stack).topic, assets)) =>
          LET fr == Head(stack)
              bare == StripImage(fr.topic)
          IN  /\ pc' = "walk" /\ exitCode' = -1
              /\ SelectSeq(Appended(doc, doc'), IsPictureBlock) = <<>>
              /\ doc' = Append(doc, TextBlock(Sanitize(RawTitle(bare)), fr.level,
                                              Len(IterChildren(bare)) = 0, indentOk))
              /\ stack' = ChildFrames(IterChildren(bare), fr.level, fr.width) \o Tail(stack)
      ]_vars

\* A{B, C{D}} has been walked with A's image missing, B's of an unsupported
\* kind and C's truncated: the one picture of the document is D's
C4_Witness ==
    /\ pc = "exit" /\ exitCode = 0
    /\ root_topic = <<TreeScenario>>
    /\ assets # EmptyDict
    /\ Len(SelectSeq(doc, IsTextBlock)) = 4
    /\ Len(SelectSeq(doc, IsPictureBlock)) = 1
    /\ doc[Len(doc)].kind = "picture"

\* neither parser produced a root node
NoRootProduced == jsonResult.root = <<>> /\ xmindLib.topic = <<>>

\* C5: a run ends with exit code 1 and a diagnostic when the source file is
\* missing or no parser produced a root node, and otherwise with exit code 0
\* and the confirmation naming the output path, the document saved there.
C5_ExitCodes ==
    pc = "exit" =>
        IF ~srcExists \/ NoRootProduced
        THEN /\ exitCode = 1
             /\ message # <<>>
             /\ message[1] \in {"not found", "cannot parse", "traceback"}
             /\ saved = <<>>
        ELSE /\ exitCode = 0
             /\ message = <<"generated", output_path>>
             /\ saved = <<output_path>>

\* the library is not installed and the structured parse gave nothing: the
\* run has ended with the fatal diagnostic
C5_Witness ==
    /\ pc = "exit" /\ exitCode = 1
    /\ legacyCalled /\ xmindLib.kind = "unavailable"
    /\ message = <<"cannot parse">>

RECURSIVE Projection(_, _, _, _)
\* the body add_topic gives the document for a list of nodes
Projection(nodes, a, width, indents) ==
    IF nodes = <<>> THEN <<>>
    ELSE LET n == Head(nodes) IN
         <<TextBlock(Sanitize(RawTitle(n.topic)), n.level,
                     Len(IterChildren(n.topic)) = 0, indents)>>
         \o PictureBlocks(n.topic, a, width)
         \o Projection(Tail(nodes), a, width, indents)

\* C6: a finished run has no field block with --no-toc and exactly one
\* without it; its other blocks are those the root, the resources and the
\* image width give, whatever the flag.
C6_TocOnlyAddsField ==
    (pc = "exit" /\ exitCode = 0) =>
        /\ Len(SelectSeq(doc, IsFieldBlock)) = IF noToc THEN 0 ELSE 1
        /\ SelectSeq(doc, NotFieldBlock)
              = Projection(PreOrder(root_topic[1], 1), assets,
                           IF imgWidth >= 1 THEN imgWidth ELSE 1, indentOk)

\* a run with --no-toc has finished a document with a picture in it
C6_Witness ==
    /\ pc = "exit" /\ exitCode = 0 /\ noToc
    /\ Len(SelectSeq(doc, IsPictureBlock)) >= 1
    /\ Len(SelectSeq(doc, IsFieldBlock)) = 0

\* the first member whose name ends in content.json, if any (Optional)
FirstContentJson(f) ==
    LET idx == {i \in 1..Len(f.names) : EndsWith(f.names[i], <<"content.json">>)} IN
    IF idx = {} THEN <<>>
    ELSE <<f.names[CHOOSE i \in idx : \A j \in idx : i <= j]>>

\* the file is no zip, or has no content.json, or its content.json is no JSON
StructuredParseFails(f) ==
    \/ ~f.isZip
    \/ FirstContentJson(f) = <<>>
    \/ LET data == f.data[FirstContentJson(f)[1]] IN data = <<>> \/ data[1] # "JSON"

\* C10: load_from_content_json never raises, and gives no root and no
\* resources for a file that is no zip, has no content.json or does not
\* parse; the legacy parser runs only after the structured parse gave no
\* root; the fatal exit is taken only after the legacy parser gave none too.
C10_FallbackOrder ==
    /\ ~jsonResult.raised
    /\ (pc \notin {"args", "check", "load"} /\ srcExists /\ StructuredParseFails(file)) =>
          jsonResult.root = <<>> /\ jsonResult.assets = EmptyDict
    /\ legacyCalled => jsonResult.root = <<>>
    /\ (pc \in {"parsed", "walk"} /\ jsonResult.root # <<>>) => ~legacyCalled
    /\ (pc = "exit" /\ message = <<"cannot parse">>) =>
          /\ legacyCalled
          /\ jsonResult.root = <<>>
          /\ xmindLib.kind # "raises" /\ xmindLib.topic = <<>>

\* content.json did not parse, the archive had resources, and the legacy
\* parser gave the tree the document was then built from
C10_Witness ==
    /\ pc = "exit" /\ exitCode = 0
    /\ file.isZip /\ Len(file.names) > 1
    /\ ContentJson \in DOMAIN file.data /\ file.data[ContentJson][1] # "JSON"
    /\ legacyCalled /\ root_topic = <<LegacyTree>>

====
